---- MODULE Spec2Model ----
(***************************************************************************)
(* Model of main.py: a FastAPI service that creates the `entries` table at *)
(* startup (init_db, with retries) and serves POST /entries/ and           *)
(* GET /entries/ through one SQLAlchemy session per request (get_db).      *)
(***************************************************************************)
EXTENDS Integers, Sequences, FiniteSets, TLC

\* ------------------------------------------------------------------ bounds
MaxRetries == 5     \* init_db is explored for retries in 0..MaxRetries
MaxDelay == 2       \* ... and for delay in 0..MaxDelay
NumWorkers == 2     \* requests handled concurrently
MaxRequests == 2    \* requests accepted in one run

\* ------------------------------------------------------- program constants
DefaultRetries == 5     \* def init_db(retries=5, ...)
DefaultDelay == 2       \* def init_db(..., delay=2)
ContentMaxLen == 255    \* Column(String(255), ...)
FirstId == 1            \* first value of the AUTO_INCREMENT primary key

VARIABLES
    phase,      \* process: "boot", "init" (startup_event running), "serving", "failed"
    initCalls,  \* number of times startup_event has called init_db
    retries,    \* init_db: argument
    delay,      \* init_db: argument
    ipc,        \* init_db: "idle", "loop", "try", "sleep", "returned", "raised"
    attempt,    \* init_db: the loop variable
    initErr,    \* init_db: the exception it raised, or "none"
    initLog,    \* init_db: the create_all calls and sleeps made, in order
    table,      \* database: rows of `entries`, in insertion order
    autoInc,    \* database: next AUTO_INCREMENT value of entries.id
    sessions,   \* sessions opened by SessionLocal() and not yet closed
    nextSess,   \* identity of the next session object
    nextReq,    \* serial number of the next request
    req,        \* per worker: the request it is handling; of a request,
                \*   seen: the POST responses delivered before it arrived,
                \*   touched: whether it has made a database call,
                \*   nrows: the number of rows committed when it ran its query
    created     \* POST /entries/ responses delivered with status 200

initVars == <<retries, delay, ipc, attempt, initErr, initLog>>
dbVars == <<table, autoInc>>
reqVars == <<sessions, nextSess, nextReq, req, created>>
vars == <<phase, initCalls, retries, delay, ipc, attempt, initErr, initLog,
          table, autoInc, sessions, nextSess, nextReq, req, created>>

Workers == 1..NumWorkers

\* ---------------------------------------------------------------- init_db
\* One entry of initLog per Base.metadata.create_all call and per time.sleep.
AttemptEv(res) == [ev |-> "attempt", res |-> res, secs |-> 0]
SleepEv(d) == [ev |-> "sleep", res |-> "", secs |-> d]

Attempts(log) == Len(SelectSeq(log, LAMBDA e : e.ev = "attempt"))
Sleeps(log) == Len(SelectSeq(log, LAMBDA e : e.ev = "sleep"))
Succeeded(log) == \E i \in 1..Len(log) : log[i] = AttemptEv("ok")

\* for attempt in range(retries): whether the loop body runs for `a`.
in_range(a, r) == a < r

\* The loop test; falling out of the loop is the implicit `return None` at
\* the end of the function.
for_attempt_in_range ==
    /\ ipc = "loop"
    /\ ipc' = IF in_range(attempt, retries) THEN "try" ELSE "returned"
    /\ UNCHANGED <<retries, delay, attempt, initErr, initLog>>
    /\ UNCHANGED <<phase, initCalls, dbVars, reqVars>>

\* create_all succeeds: print, return.
create_all_ok ==
    /\ ipc = "try"
    /\ initLog' = Append(initLog, AttemptEv("ok"))
    /\ ipc' = "returned"
    /\ UNCHANGED <<retries, delay, attempt, initErr>>
    /\ UNCHANGED <<phase, initCalls, dbVars, reqVars>>

\* except_OperationalError, had the test been attempt < retries.
except_OperationalError_late(a, r) == IF a < r THEN "sleep" ELSE "raised"

\* What the except OperationalError clause does on attempt `a` of `r`.
except_OperationalError(a, r) == IF a < r - 1 THEN "sleep" ELSE "raised"

\* create_all raises OperationalError: retry after a sleep, or re-raise.
create_all_OperationalError ==
    /\ ipc = "try"
    /\ initLog' = Append(initLog, AttemptEv("OperationalError"))
    /\ ipc' = except_OperationalError(attempt, retries)
    /\ initErr' = IF ipc' = "raised" THEN "OperationalError" ELSE initErr
    /\ UNCHANGED <<retries, delay, attempt>>
    /\ UNCHANGED <<phase, initCalls, dbVars, reqVars>>

\* create_all_other_error, had the clause been `except Exception`.
create_all_other_error_retried ==
    /\ ipc = "try"
    /\ initLog' = Append(initLog, AttemptEv("OtherError"))
    /\ ipc' = except_OperationalError(attempt, retries)
    /\ initErr' = IF ipc' = "raised" THEN "OtherError" ELSE initErr
    /\ UNCHANGED <<retries, delay, attempt>>
    /\ UNCHANGED <<phase, initCalls, dbVars, reqVars>>

\* create_all raises anything else: no except clause matches, it propagates.
create_all_other_error ==
    /\ ipc = "try"
    /\ initLog' = Append(initLog, AttemptEv("OtherError"))
    /\ ipc' = "raised"
    /\ initErr' = "OtherError"
    /\ UNCHANGED <<retries, delay, attempt>>
    /\ UNCHANGED <<phase, initCalls, dbVars, reqVars>>

\* time.sleep(delay), then the next iteration of the loop.
time_sleep ==
    /\ ipc = "sleep"
    /\ initLog' = Append(initLog, SleepEv(delay))
    /\ attempt' = attempt + 1
    /\ ipc' = "loop"
    /\ UNCHANGED <<retries, delay, initErr>>
    /\ UNCHANGED <<phase, initCalls, dbVars, reqVars>>

\* ------------------------------------------------------ startup sequencer
\* startup_outcome, had startup_event swallowed the exception of init_db.
startup_outcome_swallowed(pc) == "serving"

\* What the server does with the outcome of the startup handler: it serves
\* once the handler has returned, and exits if the handler raised.
startup_outcome(pc) == IF pc = "returned" THEN "serving" ELSE "failed"

\* @app.on_event("startup"): the handler is entered, init_db() is called
\* with its default arguments.
startup_event ==
    /\ phase = "boot"
    /\ phase' = "init"
    /\ initCalls' = initCalls + 1
    /\ retries' = DefaultRetries
    /\ delay' = DefaultDelay
    /\ attempt' = 0
    /\ ipc' = "loop"
    /\ UNCHANGED <<initErr, initLog, dbVars, reqVars>>

\* init_db has ended: startup is complete, or the process stops.
startup_complete ==
    /\ phase = "init"
    /\ ipc \in {"returned", "raised"}
    /\ phase' = startup_outcome(ipc)
    /\ UNCHANGED <<initCalls, initVars, dbVars, reqVars>>

\* ------------------------------------------------------------- data model
\* A string is modelled by a tag naming its text and its length.
Str(t, n) == [text |-> t, len |-> n]
\* Python's None / JSON null / SQL NULL: no string at all.
None == Str("", 0 - 1)
Contents == {Str("a", 1), Str("b", ContentMaxLen), Str("c", ContentMaxLen + 1)}

\* JSON request bodies: an object with or without a `content` member.
JsonBody(c) == [has |-> TRUE, type |-> "str", value |-> c]
MissingContent == [has |-> FALSE, type |-> "", value |-> None]
NullContent == [has |-> TRUE, type |-> "null", value |-> None]
NoBody == [has |-> FALSE, type |-> "none", value |-> None]
PostBodies == {JsonBody(c) : c \in Contents} \cup {MissingContent, NullContent}

\* EntryIn, had `content` been declared without its type.
EntryIn_untyped(body) == body.has

\* class EntryIn(BaseModel): content: str  -- whether the body validates.
EntryIn(body) == body.has /\ body.type = "str"

\* TextEntry.id before the row is flushed (None).
NoId == 0
NoEntry == [id |-> NoId, content |-> None]

\* TextEntry(content=entry.content)
TextEntry(c) == [id |-> NoId, content |-> c]

\* class EntryOut(BaseModel): id: int, content: str (from_attributes).
EntryOut(e) == [id |-> e.id, content |-> e.content]

\* content = Column(String(255), nullable=False): the column refuses NULL,
NotNull(c) == c # None
\* and holds at most 255 characters.
Fits(c) == c.len <= ContentMaxLen
\* Truncated, had the column been declared one character short.
Truncated_short(c) == IF c.len < ContentMaxLen THEN c ELSE Str(c.text, ContentMaxLen - 1)
\* What a server outside strict SQL mode stores for a value that does not fit.
Truncated(c) == IF Fits(c) THEN c ELSE Str(c.text, ContentMaxLen)

\* InsertRow, had the insert skipped a content that is already stored.
InsertRow_dedup(tbl, ai, c) ==
    IF \E i \in 1..Len(tbl) : tbl[i].content = c THEN tbl
    ELSE Append(tbl, [id |-> ai, content |-> c])
\* InsertRow, had the row been merged into the last one instead of added.
InsertRow_overwrite(tbl, ai, c) ==
    IF tbl = <<>> THEN Append(tbl, [id |-> ai, content |-> c])
    ELSE [tbl EXCEPT ![Len(tbl)] = [id |-> ai, content |-> c]]
\* INSERT INTO entries (content): the engine assigns id from AUTO_INCREMENT.
InsertRow(tbl, ai, c) == Append(tbl, [id |-> ai, content |-> c])
\* NextAutoInc, had the id column not been auto-incremented.
NextAutoInc_stuck(ai) == ai
NextAutoInc(ai) == ai + 1

\* RowsById, had the refresh selected without its WHERE clause.
RowsById_unfiltered(tbl, i) == tbl
\* SELECT ... WHERE id = i (db.refresh)
RowsById(tbl, i) == SelectSeq(tbl, LAMBDA r : r.id = i)

\* SELECT * FROM entries, with no ORDER BY: the rows in any order.
Orders(n) == {f \in [1..n -> 1..n] : \A i, j \in 1..n : f[i] = f[j] => i = j}
\* SelectAll, had the query left out one row.
SelectAll_short(tbl) ==
    {[i \in 1..(Len(tbl) - 1) |-> tbl[f[i]]] : f \in Orders(Len(tbl))}
SelectAll(tbl) == {[i \in 1..Len(tbl) |-> tbl[f[i]]] : f \in Orders(Len(tbl))}

\* list[EntryOut] of the rows returned.
EntryOutList(rows) == [i \in 1..Len(rows) |-> EntryOut(rows[i])]

\* --------------------------------------------------------------- requests
Idle == [pc |-> "idle", rid |-> 0, method |-> "", body |-> NoBody, sess |-> 0,
         db_entry |-> NoEntry, touched |-> FALSE, status |-> 0, shape |-> "",
         out |-> <<>>, nrows |-> 0, seen |-> {}]

InFlight(w) == req[w].pc # "idle"

\* Workers are interchangeable: a new request is given to the first free one.
FirstFree(w) == ~InFlight(w) /\ \A v \in Workers : v < w => InFlight(v)

\* The server accepts connections only once startup is complete.
Accepting == phase = "serving"

\* create_entry up to db.commit(), for a body that EntryIn accepts:
\* db_entry = TextEntry(content=entry.content); db.add(db_entry). A body it
\* rejects is answered 422 and create_entry is not called.
create_entry_add(r) ==
    IF EntryIn(r.body)
    THEN [r EXCEPT !.db_entry = TextEntry(r.body.value), !.pc = "commit"]
    ELSE [r EXCEPT !.status = 422, !.shape = "error", !.pc = "close"]

\* SessionLocal, had get_db handed out one module-level session.
SessionLocal_shared(n) == 1

\* db = SessionLocal(): a new session object, the n-th the factory has made.
SessionLocal(n) == n

\* A request arrives and a worker takes it. Its dependency is resolved:
\* get_db up to the yield, db = SessionLocal() (no connection is made yet);
\* then the body is validated and the route function starts. Nothing
\* shared is read or written before the first database call.
get_db_open(w, m, b) ==
    /\ Accepting
    /\ FirstFree(w)
    /\ nextReq <= MaxRequests
    /\ nextReq' = nextReq + 1
    /\ sessions' = sessions \cup {SessionLocal(nextSess)}
    /\ nextSess' = nextSess + 1
    /\ LET r == [Idle EXCEPT !.rid = nextReq, !.method = m, !.body = b,
                             !.sess = SessionLocal(nextSess),
                             !.seen = {d.rid : d \in created}]
       IN req' = [req EXCEPT ![w] = IF m = "POST" THEN create_entry_add(r)
                                                 ELSE [r EXCEPT !.pc = "query"]]
    /\ UNCHANGED <<phase, initCalls, initVars, dbVars, created>>

\* db.commit(): the INSERT and the COMMIT.
create_entry_commit(w) ==
    /\ req[w].pc = "commit"
    /\ \/ \* the row is stored (cut to the column's length outside strict mode)
          /\ NotNull(req[w].db_entry.content)
          /\ table' = InsertRow(table, autoInc, Truncated(req[w].db_entry.content))
          /\ autoInc' = NextAutoInc(autoInc)
          /\ req' = [req EXCEPT ![w].db_entry.id = autoInc, ![w].touched = TRUE,
                                ![w].pc = "refresh"]
       \/ \* strict mode refuses a value that does not fit: DataError
          /\ ~Fits(req[w].db_entry.content)
          /\ UNCHANGED <<table, autoInc>>
          /\ req' = [req EXCEPT ![w].touched = TRUE, ![w].status = 500,
                                ![w].shape = "error", ![w].pc = "close"]
       \/ \* the connection fails: OperationalError, nothing is committed; an
          \* id handed out to a rolled-back INSERT is not reused
          /\ UNCHANGED table
          /\ autoInc' \in {autoInc, NextAutoInc(autoInc)}
          /\ req' = [req EXCEPT ![w].touched = TRUE, ![w].status = 500,
                                ![w].shape = "error", ![w].pc = "close"]
    /\ UNCHANGED <<phase, initCalls, initVars, sessions, nextSess, nextReq, created>>

\* db.refresh(db_entry); return db_entry, serialised through EntryOut.
create_entry_refresh(w) ==
    /\ req[w].pc = "refresh"
    /\ \/ /\ RowsById(table, req[w].db_entry.id) # <<>>
          /\ LET row == RowsById(table, req[w].db_entry.id)[1] IN
             req' = [req EXCEPT ![w].db_entry = row, ![w].status = 200,
                                ![w].shape = "object", ![w].out = <<EntryOut(row)>>,
                                ![w].pc = "close"]
       \/ \* the connection fails: OperationalError
          req' = [req EXCEPT ![w].status = 500, ![w].shape = "error", ![w].pc = "close"]
    /\ UNCHANGED <<phase, initCalls, initVars, dbVars, sessions, nextSess, nextReq, created>>

\* read_entries: return db.query(TextEntry).all(), as list[EntryOut].
read_entries(w) ==
    /\ req[w].pc = "query"
    /\ \/ \E rows \in SelectAll(table) :
             req' = [req EXCEPT ![w].touched = TRUE, ![w].status = 200,
                                ![w].shape = "array", ![w].out = EntryOutList(rows),
                                ![w].nrows = Len(table),
                                ![w].pc = "close"]
       \/ \* the connection fails: OperationalError
          req' = [req EXCEPT ![w].touched = TRUE, ![w].status = 500,
                             ![w].shape = "error", ![w].pc = "close"]
    /\ UNCHANGED <<phase, initCalls, initVars, dbVars, sessions, nextSess, nextReq, created>>

\* get_db_finally, had db.close() followed the yield with no try/finally.
get_db_no_finally(open, s, raised) == IF raised THEN open ELSE open \ {s}

\* get_db after the yield: finally: db.close(), whatever `raised` says.
get_db_finally(open, s, raised) == open \ {s}

\* What is remembered of a delivered response.
Response(r) == [rid |-> r.rid, content |-> r.body.value, out |-> r.out[1],
                seen |-> r.seen]

\* The request ends: the dependency is torn down and the response is sent.
get_db_close(w) ==
    /\ req[w].pc = "close"
    /\ sessions' = get_db_finally(sessions, req[w].sess, req[w].status # 200)
    /\ created' = IF req[w].method = "POST" /\ req[w].status = 200
                  THEN created \cup {Response(req[w])} ELSE created
    /\ req' = [req EXCEPT ![w] = Idle]
    /\ UNCHANGED <<phase, initCalls, initVars, dbVars, nextSess, nextReq>>

\* ---------------------------------------------------------- specifications
Init ==
    /\ phase = "boot"
    /\ initCalls = 0
    /\ retries = DefaultRetries
    /\ delay = DefaultDelay
    /\ ipc = "idle"
    /\ attempt = 0
    /\ initErr = "none"
    /\ initLog = <<>>
    /\ table = <<>>
    /\ autoInc = FirstId
    /\ sessions = {}
    /\ nextSess = 1
    /\ nextReq = 1
    /\ req = [w \in Workers |-> Idle]
    /\ created = {}

Next ==
    \/ startup_event
    \/ for_attempt_in_range
    \/ create_all_ok
    \/ create_all_OperationalError
    \/ create_all_other_error
    \/ time_sleep
    \/ startup_complete
    \/ \E w \in Workers :
          \/ \E b \in PostBodies : get_db_open(w, "POST", b)
          \/ get_db_open(w, "GET", NoBody)
          \/ create_entry_commit(w)
          \/ create_entry_refresh(w)
          \/ read_entries(w)
          \/ get_db_close(w)

Spec == Init /\ [][Next]_vars

\* init_db on its own, called with any arguments.
InitDbInit ==
    /\ phase = "boot"
    /\ initCalls = 0
    /\ retries \in 0..MaxRetries
    /\ delay \in 0..MaxDelay
    /\ ipc = "loop"
    /\ attempt = 0
    /\ initErr = "none"
    /\ initLog = <<>>
    /\ table = <<>>
    /\ autoInc = FirstId
    /\ sessions = {}
    /\ nextSess = 1
    /\ nextReq = 1
    /\ req = [w \in Workers |-> Idle]
    /\ created = {}

InitDbNext ==
    \/ for_attempt_in_range
    \/ create_all_ok
    \/ create_all_OperationalError
    \/ create_all_other_error
    \/ time_sleep

SpecInitDb == InitDbInit /\ [][InitDbNext]_vars

\* ------------------------------------------------------------- properties
Ended == ipc \in {"returned", "raised"}
AllUnreachable(log) ==
    \A i \in 1..Len(log) : log[i].ev = "attempt" => log[i].res = "OperationalError"
\* Every attempt but the first comes right after a sleep of d, and every
\* sleep comes between two attempts.
DelayBetweenAttempts(log, d) ==
    \A i \in 1..Len(log) :
        /\ (log[i].ev = "attempt" /\ i > 1) => log[i - 1] = SleepEv(d)
        /\ log[i].ev = "sleep" => (i > 1 /\ i < Len(log) /\ log[i - 1].ev = "attempt")

\* C1: when every create_all attempt of init_db(retries, delay) fails with
\* OperationalError, init_db ends by raising that error after exactly
\* `retries` attempts, with a sleep of `delay` between consecutive attempts.
C1_UnreachableFailsAfterRetries ==
    (Ended /\ AllUnreachable(initLog)) =>
        /\ ipc = "raised"
        /\ initErr = "OperationalError"
        /\ Attempts(initLog) = retries
        /\ DelayBetweenAttempts(initLog, delay)

\* C10: init_db returns normally only after a create_all attempt has
\* succeeded, whatever `retries` is.
C10_ReturnsOnlyAfterSuccess == ipc = "returned" => Succeeded(initLog)

AnyRequest == nextReq > 1 \/ \E w \in Workers : InFlight(w)

\* C2: init_db is called once, no request is handled before it has
\* returned, and none is ever handled once it has raised.
C2_InitOnceBeforeRequests ==
    /\ initCalls <= 1
    /\ AnyRequest => (initCalls = 1 /\ ipc = "returned" /\ phase = "serving")
    /\ (ipc = "raised" \/ phase = "failed") =>
           (~AnyRequest /\ sessions = {} /\ table = <<>> /\ created = {})

C2_Witness == AnyRequest /\ Attempts(initLog) > 1

GetAnswered(r) == r.pc = "close" /\ r.method = "GET" /\ r.status = 200
PostAnswered(r) == r.pc = "close" /\ r.method = "POST" /\ r.status = 200
Listed(out, e) == \E i \in 1..Len(out) : out[i] = e

\* C3: a GET that arrives after a POST of a content of at most 255
\* characters was answered 200 lists an entry with that content and the id
\* of the POST's response, which is not null.
C3_PostThenGet ==
    \A w \in Workers : GetAnswered(req[w]) =>
        \A p \in created : (p.rid \in req[w].seen /\ p.content.len <= ContentMaxLen) =>
            /\ p.out.id # NoId
            /\ Listed(req[w].out, [id |-> p.out.id, content |-> p.content])

C3_Witness ==
    \E w \in Workers : /\ GetAnswered(req[w])
                       /\ \E p \in created : /\ p.rid \in req[w].seen
                                             /\ p.content.len = ContentMaxLen

\* A POST body with no `content` member, or one that is not a string.
BadBody(r) == r.method = "POST" /\ (~r.body.has \/ r.body.type # "str")

C4_Rejected ==
    \A w \in Workers : BadBody(req[w]) =>
        /\ req[w].pc = "close"
        /\ req[w].status = 422
        /\ ~req[w].touched
        /\ req[w].db_entry = NoEntry

C4_StoreUntouched ==
    \A w \in Workers :
        ((BadBody(req[w]) \/ BadBody(req'[w])) /\ req'[w] # req[w]) =>
            UNCHANGED <<table, autoInc, created>>

\* C4: a POST whose body has no `content`, or a `content` that is not a
\* string, is answered with a validation error, makes no database call, and
\* no step of it changes the store.
C4_InvalidBodyRejected == []C4_Rejected /\ [][C4_StoreUntouched]_vars

C4_Witness ==
    \E w \in Workers : BadBody(req[w]) /\ req[w].status = 422 /\ table # <<>>

C5_TwoRows ==
    \A p, q \in created : (p.rid \in q.seen /\ p.content = q.content) =>
        /\ p.out.id # q.out.id
        /\ \E i, j \in 1..Len(table) :
              /\ i # j
              /\ EntryOut(table[i]) = p.out
              /\ EntryOut(table[j]) = q.out

C5_OneNewRow ==
    \A w \in Workers : (req[w].pc = "commit" /\ req'[w].pc = "refresh") =>
        /\ Len(table') = Len(table) + 1
        /\ SubSeq(table', 1, Len(table)) = table
        /\ table'[Len(table')].id = req'[w].db_entry.id
        /\ \A i \in 1..Len(table) : table[i].id # req'[w].db_entry.id

\* C5: two POSTs with the same content, the second arriving after the
\* first was answered, get two different ids and leave two rows; a commit
\* that succeeds adds exactly one row, under an id no row had.
C5_NoDedup == []C5_TwoRows /\ [][C5_OneNewRow]_vars

C5_Witness ==
    \E p, q \in created : p.rid \in q.seen /\ p.content = q.content

\* The ids of the 200 responses to POST, delivered or about to be, by request.
PostedIds ==
    {<<p.rid, p.out.id>> : p \in created} \cup
    {<<req[w].rid, req[w].out[1].id>> : w \in {v \in Workers : PostAnswered(req[v])}}

\* C6: no two 200 responses to POST carry the same id, however the
\* requests interleave.
C6_UniqueResponseIds ==
    \A a, b \in PostedIds : a[1] # b[1] => a[2] # b[2]

\* Two POSTs answered 200, neither of which arrived after the other's answer.
C6_Witness ==
    \E p, q \in created : p.rid # q.rid /\ p.rid \notin q.seen /\ q.rid \notin p.seen

\* C7: a GET that is answered 200 returns an array holding {id, content}
\* of every row committed when its query ran and nothing else; when there
\* was none, the array is empty and the status is still 200.
C7_ListsEveryEntry ==
    \A w \in Workers : GetAnswered(req[w]) =>
        /\ req[w].shape = "array"
        /\ Len(req[w].out) = req[w].nrows
        /\ req[w].nrows <= Len(table)
        /\ \A i \in 1..req[w].nrows :
              Listed(req[w].out, [id |-> table[i].id, content |-> table[i].content])
        /\ req[w].nrows = 0 => req[w].out = <<>>

C7_Witness == \E w \in Workers : GetAnswered(req[w]) /\ Len(req[w].out) >= 1

\* C8: every open session belongs to a request in flight; so when no
\* request is in flight, no session is open, however the requests ended.
C8_SessionsReleased ==
    /\ \A s \in sessions : \E w \in Workers : InFlight(w) /\ req[w].sess = s
    /\ (\A w \in Workers : ~InFlight(w)) => sessions = {}

\* Nothing in flight after a POST whose commit failed.
C8_Witness ==
    /\ \A w \in Workers : ~InFlight(w)
    /\ nextReq > 1
    /\ table = <<>>
    /\ autoInc > FirstId

\* C9: every row of the table has a content that is not NULL, and no two
\* rows have the same id.
C9_RowsWellFormed ==
    /\ \A i \in 1..Len(table) : table[i].content # None /\ table[i].id # NoId
    /\ \A i, j \in 1..Len(table) : table[i].id = table[j].id => i = j

C9_Witness == Len(table) >= 2

C11_Frame ==
    /\ Len(table') >= Len(table)
    /\ SubSeq(table', 1, Len(table)) = table
    /\ autoInc' >= autoInc
    /\ \A w \in Workers :
          ((req[w].method = "GET" \/ req'[w].method = "GET") /\ req'[w] # req[w]) =>
              UNCHANGED <<table, autoInc>>

\* C11: no step removes or changes a row: every row keeps its id and its
\* content, rows are only added, and no step of a GET changes the store.
C11_NeverUpdatesOrDeletes == [][C11_Frame]_vars

\* A GET has run its query on a store that holds the row of an earlier POST.
C11_Witness ==
    \E w \in Workers : /\ req[w].method = "GET" /\ req[w].touched
                       /\ created # {} /\ table # <<>>

\* C12: a request whose database call fails is answered with a server error
\* at once, and when it is a POST no row of it is in the store.
C12_FailedPostLeavesNoRow ==
    \A w \in Workers : (req[w].pc = "close" /\ req[w].status = 500) =>
        /\ req[w].touched
        /\ req[w].shape = "error"
        /\ req[w].method = "POST" =>
               \A i \in 1..Len(table) : table[i].id # req[w].db_entry.id

C13_OwnOpenSession ==
    \A w \in Workers : InFlight(w) =>
        /\ req[w].sess \in sessions
        /\ \A v \in Workers : (InFlight(v) /\ req[v].sess = req[w].sess) => v = w

C13_FreshSession ==
    \A w \in Workers :
        /\ (~InFlight(w) /\ InFlight(w)') =>
               /\ req'[w].sess \notin sessions
               /\ req'[w].sess >= nextSess
               /\ \A v \in Workers : v # w => req[v].sess # req'[w].sess
        /\ (InFlight(w) /\ InFlight(w)') => req'[w].sess = req[w].sess
        /\ (req'[w] # req[w] /\ (req'[w].touched \/ table' # table)) =>
               req'[w].sess \in sessions

\* C13: a request gets a session no request has had, keeps it to its end,
\* shares it with no other request, and makes its database calls only while
\* that session is open.
C13_SessionPerRequest == []C13_OwnOpenSession /\ [][C13_FreshSession]_vars

\* Two requests in flight at once, both having made a database call.
C13_Witness ==
    \E w, v \in Workers : w # v /\ req[w].touched /\ req[v].touched

\* The attempts have all been made and none succeeded.
AllFailed == Ended /\ ~Succeeded(initLog) /\ Attempts(initLog) = retries

\* init_db stopped at its first success, the k-th attempt: k attempts, k-1
\* sleeps, a normal return.
StopsAtFirstSuccess ==
    (Ended /\ Succeeded(initLog)) =>
        /\ ipc = "returned"
        /\ initLog[Len(initLog)] = AttemptEv("ok")
        /\ \A i \in 1..(Len(initLog) - 1) : initLog[i] # AttemptEv("ok")
        /\ Attempts(initLog) \in 1..retries
        /\ Sleeps(initLog) = Attempts(initLog) - 1

NoSleepAtTheEnd == (Ended /\ initLog # <<>>) => initLog[Len(initLog)].ev = "attempt"

\* C14 as stated: k attempts and k-1 sleeps when the k-th attempt is the
\* first to succeed; retries-1 sleeps when all attempts fail, none of them
\* after the last attempt.
C14_RetriesMinusOneDelays ==
    /\ StopsAtFirstSuccess
    /\ NoSleepAtTheEnd
    /\ AllFailed => Sleeps(initLog) = retries - 1

\* C14, amended: as stated, but with no sleep at all when retries is 0.
C14_DelaysBetweenAttemptsOnly ==
    /\ StopsAtFirstSuccess
    /\ NoSleepAtTheEnd
    /\ AllFailed => Sleeps(initLog) = IF retries = 0 THEN 0 ELSE retries - 1

\* All of three or more attempts have failed.
C14_Witness == AllFailed /\ retries >= 3 /\ ipc = "raised"

\* C15: an attempt that fails with anything but OperationalError is the
\* last thing init_db does: it ends with that error, with no sleep and no
\* attempt after it; every sleep follows an OperationalError.
C15_OnlyOperationalErrorRetried ==
    \A i \in 1..Len(initLog) :
        /\ initLog[i] = AttemptEv("OtherError") =>
               (i = Len(initLog) /\ ipc = "raised" /\ initErr = "OtherError")
        /\ initLog[i].ev = "sleep" =>
               (i > 1 /\ initLog[i - 1] = AttemptEv("OperationalError"))

\* Another error on the second attempt, with attempts to spare.
C15_Witness ==
    /\ initErr = "OtherError"
    /\ Attempts(initLog) = 2
    /\ retries >= 4

====
